---- MODULE Spec2Model ----
(***************************************************************************)
(* Server side of the resumable chunked upload: the upload coordinator     *)
(* (FileStorageService), the status registry (UploadStatusService,         *)
(* FileUploadStatus), the chunk store (ChunkStorageService) and the        *)
(* assembler (FileAssemblyService).  Requests run concurrently; each       *)
(* request is cut at the points where the code does file I/O.              *)
(* Client side: the upload worker (upload.worker.ts), whose startUpload     *)
(* calls are cut at their awaits, the upload service of the main thread    *)
(* (UploadService) with the message queues between the two, and the retry  *)
(* policy (UploadRetryHandler).                                            *)
(***************************************************************************)
EXTENDS Bags, FiniteSets, Integers, Sequences, TLC

\* ------------------------------------------------------------------ bounds

\* Requests started in one behaviour.
MaxOps == 3
\* Requests that are being processed at the same time.
MaxInflight == 2
\* Largest totalChunks a request carries.
MaxTotalChunks == 2
MaxMessages == 3
\* Largest attemptCount the retry policy is asked about.
MaxAttemptCount == 6
\* Math.random() returns one of 0/RandomScale .. (RandomScale - 1)/RandomScale.
RandomScale == 4
MaxClock == 2

\* ------------------------------------------------------------- input domains

\* A Java reference that may be null: <<>> is null, <<x>> is the value x.
Null == <<>>
Some(x) == <<x>>

\* Session ids (one-character strings).  The sessions of different ids share
\* no state, so one id shows every behaviour of a session.
Ids == {"a"}

\* Strings that the code takes apart are sequences of characters.
Chars(id) == <<id>>
NameFTxt == <<"f", ".", "t">>
FileNameArgs == {Null, Some(NameFTxt)}

\* Chunk payloads (byte arrays); <<>> is the empty array.
\* fileName of a resume handshake: the parameter can also be sent empty.
ResumeFileNameArgs == FileNameArgs \cup {Some(<<>>)}

ChunkArgs == {<<>>, <<1>>, <<2, 2>>}
ChunkNumberArgs == (-1) .. (MaxTotalChunks - 1)
\* totalChunks of a request: none, a single chunk, the largest.
TotalChunksArgs == {0, 1, MaxTotalChunks}

\* (chunkNumber, totalChunks, chunk, fileName) of a chunk submission: every
\* combination the validation accepts, and one that it rejects per rule.
ChunkRequestArgs ==
    {a \in ChunkNumberArgs \X TotalChunksArgs \X ChunkArgs \X FileNameArgs :
        a[1] >= 0 /\ a[2] > 0 /\ a[3] # <<>>}
    \cup {<<-1, 1, <<1>>, Null>>, <<0, 0, <<1>>, Null>>, <<0, 1, <<>>, Null>>}

\* maxAgeMillis of a cleanup: the threshold 0 and a positive one.
MaxAgeArgs == {0, 1}

\* totalChunks in the payload of a start or resume message; 0 is "missing".
PayloadTotalChunksArgs == {0, MaxTotalChunks}

\* uploadedChunks in the payload of a start or resume message.
PayloadUploadedChunksArgs == {{}, {0}}

\* Errors handed to the retry policy: the fields it reads.  status 0 stands for
\* an error without a status, message <<>> for one without a message; a message
\* is the sequence of its words.
ErrorNameArgs == {"NetworkError", "TimeoutError", "AbortError", "TypeError", "Error"}
ErrorStatusArgs == {0, 400, 401, 403, 404, 408, 409, 413, 415, 429, 500, 502, 503, 504}
ErrorMessageArgs ==
    {<<>>, <<"Network", "down">>, <<"Timeout">>, <<"connection", "reset">>,
     <<"Failed", "to", "fetch">>, <<"bad", "request">>}
ErrorArgs == [name : ErrorNameArgs, status : ErrorStatusArgs, message : ErrorMessageArgs]
AttemptCountArgs == 0 .. MaxAttemptCount

\* A message of the main thread to the worker (UploadWorkerMessage); a
\* 'pause' or 'cancel' carries the fileId only.
Message(type, fileId, totalChunks, uploadedChunks) ==
    [type |-> type, fileId |-> fileId, totalChunks |-> totalChunks,
     uploadedChunks |-> uploadedChunks]
MessageArgs ==
    {Message(type, fileId, totalChunks, uploadedChunks) :
        type \in {"start", "resume"}, fileId \in Ids,
        totalChunks \in PayloadTotalChunksArgs,
        uploadedChunks \in PayloadUploadedChunksArgs}
    \cup {Message(type, fileId, 0, {}) : type \in {"pause", "cancel"}, fileId \in Ids}

\* totalChunks of a file the user picks: Math.ceil(file.size / chunkSize) of a
\* file that is not empty.
FileTotalChunksArgs == {1, MaxTotalChunks}

\* The HTTP status that answers a request of the worker.
ResponseStatusArgs == {200, 400, 503}

\* The file ids of the uploads of a page.
RefreshIds == {"a", "b"}

\* Metadata of a resume handshake: (fileSize, chunkSize).
MetaArgs == {<<Null, Null>>, <<Some(3), Some(2)>>}

\* ------------------------------------------------------------------- state

VARIABLES
    fileUploadStatusMap,   \* UploadStatusService: fileId -> FileUploadStatus
    tempDirs,              \* chunk store: ids whose temporary directory exists
    chunkFiles,            \* chunk store: <<fileId, chunkNumber>> -> bytes on disk
    finalFiles,            \* upload directory: path -> bytes of an assembled file
    inflight,              \* bag of requests suspended before a file operation
    ops,                   \* requests started so far
    resp,                  \* the response of the request that ended last
    finalized              \* ids whose finalize has returned success (history)

\* The upload worker of the browser (upload.worker.ts).
VARIABLES
    uploadTasks,           \* the Map uploadTasks: fileId -> its UploadTask object
    tasks,                 \* the UploadTask objects made so far, by number
    controllers,           \* the AbortControllers made so far: aborted or not
    loops,                 \* bag of startUpload calls suspended at an await
    sent,                  \* chunk index -> chunk requests issued for it (history)
    msgs,                  \* messages the worker has handled
    toWorker,              \* messages posted to the worker, not yet handled
    toMain                 \* messages posted to the main thread, not yet handled

\* The upload service of the main thread (UploadService).
VARIABLES
    uploads,               \* uploadsSubject: fileId -> the first upload of that id
    deleteRequests         \* DELETE requests issued to the server

\* A use of the retry policy of the client (UploadRetryHandler).
VARIABLES
    error,                 \* the error the policy is asked about
    attemptCount,          \* the attempts made so far
    retried,               \* what shouldRetry returned, Null before the call
    delay                  \* what getRetryDelay returned, Null before the call

\* The page and its record of active uploads (BrowserRefreshService).
VARIABLES
    refreshStateSubject,   \* the value of the BehaviorSubject of the service
    sessionStorage,        \* the item 'large-upload-state', Null when absent
    now,                   \* Date.now(), in units of five minutes
    loaded,                \* the page is loaded and its service constructed
    handled                \* previousUploads as handleBrowserRefresh last read them

serverVars == <<fileUploadStatusMap, tempDirs, chunkFiles, finalFiles, inflight, ops,
                resp, finalized>>

handlerVars == <<error, attemptCount, retried, delay>>

workerVars == <<uploadTasks, tasks, controllers, loops, sent, msgs, toWorker, toMain>>

serviceVars == <<uploads, deleteRequests>>

refreshVars == <<refreshStateSubject, sessionStorage, now, loaded, handled>>

clientVars == <<workerVars, serviceVars, handlerVars, refreshVars>>

vars == <<serverVars, clientVars>>

\* ------------------------------------------------------- FileUploadStatus

\* new FileUploadStatus(fileId, totalChunks)
NewStatus(totalChunks) ==
    [totalChunks |-> totalChunks, receivedChunks |-> {}, fileName |-> Null,
     fileSize |-> Null, chunkSize |-> Null, uploadedBytes |-> 0,
     completed |-> FALSE, failed |-> FALSE, errorMessage |-> Null]

\* new FileUploadStatus(fileId, totalChunks, fileName, fileSize, chunkSize)
NewStatusWithMetadata(totalChunks, fileName, fileSize, chunkSize) ==
    [NewStatus(totalChunks) EXCEPT !.fileName = fileName, !.fileSize = fileSize,
                                   !.chunkSize = chunkSize]

\* addChunk without the test of what Set.add returned: every call counts the
\* bytes.  A faulty variant, against which C6 is tried.
StatusAddChunkEveryCall(status, chunkNumber) ==
    [status EXCEPT
        !.receivedChunks = @ \cup {chunkNumber},
        !.uploadedBytes = IF status.chunkSize # Null
                          THEN @ + status.chunkSize[1] ELSE @]

\* FileUploadStatus.addChunk(chunkNumber): the byte counter moves only when the
\* set did not hold the index, and by the declared chunkSize.
StatusAddChunk(status, chunkNumber) ==
    IF chunkNumber \in status.receivedChunks
    THEN status
    ELSE [status EXCEPT
            !.receivedChunks = @ \cup {chunkNumber},
            !.uploadedBytes = IF status.chunkSize # Null
                              THEN @ + status.chunkSize[1] ELSE @]

\* FileUploadStatus.isComplete()
isComplete(status) ==
    status.completed \/ Cardinality(status.receivedChunks) = status.totalChunks

\* FileUploadStatus.getMissingChunks()
StatusMissingChunks(status) ==
    {i \in 0 .. (status.totalChunks - 1) : i \notin status.receivedChunks}

\* FileUploadStatus.getNextExpectedChunk(): the first index of [0, totalChunks)
\* that the set does not hold, totalChunks when it holds them all
getNextExpectedChunk(status) ==
    IF \A i \in 0 .. (status.totalChunks - 1) : i \in status.receivedChunks
    THEN status.totalChunks
    ELSE CHOOSE i \in 0 .. (status.totalChunks - 1) :
            /\ i \notin status.receivedChunks
            /\ \A j \in 0 .. (i - 1) : j \in status.receivedChunks

\* new ResumeUploadResponse(status): the fields about the chunks
ResumeUploadResponse(status) ==
    [totalChunks |-> status.totalChunks,
     receivedChunks |-> status.receivedChunks,
     missingChunks |-> StatusMissingChunks(status),
     nextExpectedChunk |-> getNextExpectedChunk(status)]

\* --------------------------------------------------- UploadStatusService

\* put in place of computeIfAbsent: the last creation wins.  A faulty variant,
\* against which C15 is tried.
getOrCreateUploadStatusPut(map, fileId, totalChunks) ==
    (fileId :> NewStatus(totalChunks)) @@ map

\* computeIfAbsent(fileId, k -> new FileUploadStatus(fileId, totalChunks))
getOrCreateUploadStatus(map, fileId, totalChunks) ==
    IF fileId \in DOMAIN map THEN map
    ELSE (fileId :> NewStatus(totalChunks)) @@ map

\* computeIfAbsent with the metadata constructor
getOrCreateUploadStatusWithMetadata(map, fileId, totalChunks, fileName, fileSize, chunkSize) ==
    IF fileId \in DOMAIN map THEN map
    ELSE (fileId :> NewStatusWithMetadata(totalChunks, fileName, fileSize, chunkSize)) @@ map

setFileName(map, fileId, fileName) ==
    IF fileId \in DOMAIN map /\ map[fileId].fileName = Null /\ fileName # Null
    THEN [map EXCEPT ![fileId].fileName = fileName]
    ELSE map

\* addChunk that stores a set built from a stale read: the indices recorded
\* in between are lost.  A faulty variant, against which C14 is tried.
addChunkLostUpdate(map, fileId, chunkNumber) ==
    IF fileId \in DOMAIN map
    THEN [map EXCEPT ![fileId].receivedChunks = {chunkNumber}]
    ELSE map

addChunk(map, fileId, chunkNumber) ==
    IF fileId \in DOMAIN map
    THEN [map EXCEPT ![fileId] = StatusAddChunk(@, chunkNumber)]
    ELSE map

markAsCompleted(map, fileId) ==
    IF fileId \in DOMAIN map
    THEN [map EXCEPT ![fileId].completed = TRUE]
    ELSE map

\* markAsFailed that loses the failure.  A faulty variant, against which C8 is
\* tried.
markAsFailedLost(map, fileId, errorMessage) == map

markAsFailed(map, fileId, errorMessage) ==
    IF fileId \in DOMAIN map
    THEN [map EXCEPT ![fileId].failed = TRUE, ![fileId].errorMessage = Some(errorMessage)]
    ELSE map

removeUploadStatus(map, fileId) ==
    [k \in DOMAIN map \ {fileId} |-> map[k]]

isUploadComplete(map, fileId) ==
    fileId \in DOMAIN map /\ isComplete(map[fileId])

getMissingChunks(map, fileId) ==
    IF fileId \in DOMAIN map THEN StatusMissingChunks(map[fileId]) ELSE {}

\* --------------------------------------------------- ChunkStorageService

\* Files.write(path, data, CREATE, WRITE): the file is opened without
\* truncation and data is written from offset 0.
WriteBytes(old, data) ==
    IF Len(old) > Len(data)
    THEN data \o SubSeq(old, Len(data) + 1, Len(old))
    ELSE data

\* ChunkStorageService.saveChunk: the file <fileId>.part<chunkNumber> after the write
ChunkStoreSave(files, fileId, chunkNumber, chunkData) ==
    LET key == <<fileId, chunkNumber>>
        old == IF key \in DOMAIN files THEN files[key] ELSE <<>>
    IN  (key :> WriteBytes(old, chunkData)) @@ files

chunkExists(files, fileId, chunkNumber) == <<fileId, chunkNumber>> \in DOMAIN files

allChunksExist(files, fileId, totalChunks) ==
    \A i \in 0 .. (totalChunks - 1) : chunkExists(files, fileId, i)

\* A cleanup that deletes one chunk file of the id per call.  A faulty variant,
\* against which C13 is tried.
CleanupOneChunkFile(files, fileId) ==
    LET mine == {x \in DOMAIN files : x[1] = fileId}
    IN  IF mine = {} THEN files
        ELSE LET first == CHOOSE x \in mine : \A y \in mine : x[2] <= y[2]
             IN  [k \in DOMAIN files \ {first} |-> files[k]]

\* cleanupTempDirectory walking the parent of the temporary directories: no
\* chunk file of any session is left.
CleanupEveryChunkFile(files, fileId) == <<>>

\* ChunkStorageService.cleanupTempDirectory: the chunk files left after the walk
CleanupChunkFiles(files, fileId) ==
    [k \in {x \in DOMAIN files : x[1] # fileId} |-> files[k]]

\* --------------------------------------------------- FileAssemblyService

RECURSIVE LastDot(_, _)
\* fileName.lastIndexOf('.') scanning down from position i (1-based; 0: none)
LastDot(fileName, i) ==
    IF i = 0 THEN 0
    ELSE IF fileName[i] = "." THEN i ELSE LastDot(fileName, i - 1)

\* Java's lastIndexOf is 0-based: index > 0 there is position > 1 here.
getNameWithoutExtension(fileName) ==
    LET d == LastDot(fileName, Len(fileName))
    IN  IF d > 1 THEN SubSeq(fileName, 1, d - 1) ELSE fileName

getFileExtension(fileName) ==
    LET d == LastDot(fileName, Len(fileName))
    IN  IF d > 1 /\ d < Len(fileName) THEN SubSeq(fileName, d + 1, Len(fileName)) ELSE <<>>

\* fileName.trim().isEmpty()
IsBlank(fileName) == \A i \in 1 .. Len(fileName) : fileName[i] = " "

RECURSIVE ResolveConflict(_, _, _)
\* the while (Files.exists(finalPath)) loop of determineFinalFilePath
ResolveConflict(existing, fileName, counter) ==
    LET extension == getFileExtension(fileName)
        newFileName == getNameWithoutExtension(fileName) \o <<"_", ToString(counter)>>
                       \o (IF extension = <<>> THEN <<>> ELSE <<".">> \o extension)
    IN  IF newFileName \in existing
        THEN ResolveConflict(existing, fileName, counter + 1)
        ELSE newFileName

determineFinalFilePath(existing, fileName, fileId) ==
    LET name == IF fileName = Null \/ IsBlank(fileName[1])
                THEN Chars(fileId) \o <<".", "b", "i", "n">>
                ELSE fileName[1]
    IN  IF name \in existing THEN ResolveConflict(existing, name, 1) ELSE name

RECURSIVE TransferChunksDescending(_, _, _, _)
\* A transfer loop that appends the chunks last to first.  A faulty variant,
\* against which C9 is tried.
TransferChunksDescending(files, fileId, i, totalChunks) ==
    IF i >= totalChunks THEN <<>>
    ELSE TransferChunksDescending(files, fileId, i + 1, totalChunks) \o files[<<fileId, i>>]

RECURSIVE TransferChunks(_, _, _, _)
\* the transferTo loop of assembleChunksToFile over chunkFiles[i .. totalChunks-1]
TransferChunks(files, fileId, i, totalChunks) ==
    IF i >= totalChunks THEN <<>>
    ELSE files[<<fileId, i>>] \o TransferChunks(files, fileId, i + 1, totalChunks)

\* ------------------------------------------------------ requests in flight

\* prior: what the session showed of the operation when the request started
\* ("recorded": the index with these bytes; "failed", "completed": the session;
\* "concurrent": a saveChunk of another index of the id, its file written, was
\* in flight when this one recorded its index;
\* "mismatch": the handshake named another totalChunks than the session has;
\* "cancelled": the request that ended last was a cancel of the id too).
Request(op, pc, id, n, chunk, tot, name, path, prior) ==
    [op |-> op, pc |-> pc, id |-> id, n |-> n, chunk |-> chunk, tot |-> tot,
     name |-> name, path |-> path, prior |-> prior]

Suspend(r) == inflight (+) SetToBag({r})
Finish(r) == inflight (-) SetToBag({r})
Advance(r, next) == (inflight (-) SetToBag({r})) (+) SetToBag({next})

Response(op, id, code, prior) == [op |-> op, id |-> id, code |-> code, prior |-> prior]

\* GlobalExceptionHandler: the HTTP status of the response to an outcome.  An
\* IllegalArgumentException (a rejected argument, an unknown fileId) has the
\* handler that answers 400; an IllegalStateException (the upload is not
\* complete) and the RuntimeException that wraps an IOException have none of
\* their own and fall to the handler of Exception, which answers 500 with the
\* fixed message "An unexpected error occurred".
handleException(code) ==
    CASE code = "OK" -> 200
      [] code \in {"BadArgument", "NotFound"} -> 400
      [] OTHER -> 500

\* The session shows the submission already: the index is recorded, its chunk
\* file holds exactly these bytes, and a fileName it carries has been taken.
PriorOfChunk(fileId, chunkNumber, chunk, fileName) ==
    IF /\ fileId \in DOMAIN fileUploadStatusMap
       /\ chunkNumber \in fileUploadStatusMap[fileId].receivedChunks
       /\ <<fileId, chunkNumber>> \in DOMAIN chunkFiles
       /\ chunkFiles[<<fileId, chunkNumber>>] = chunk
       /\ (fileName = Null \/ fileUploadStatusMap[fileId].fileName # Null)
    THEN "recorded" ELSE "none"

\* What the response of a saveChunk that records its index tells of the request.
PriorAtRecord(r) ==
    IF /\ r.prior = "none"
       /\ \E q \in BagToSet(inflight) :
             q.op = "saveChunk" /\ q.pc = "record" /\ q.id = r.id /\ q.n # r.n
    THEN "concurrent" ELSE r.prior

PriorOfSession(fileId) ==
    IF fileId \notin DOMAIN fileUploadStatusMap THEN "none"
    ELSE IF fileUploadStatusMap[fileId].completed THEN "completed"
    ELSE IF fileUploadStatusMap[fileId].failed THEN "failed"
    ELSE "none"

\* The worker when its script has been loaded: no task, nothing sent
WorkerInit ==
    /\ uploadTasks = <<>>
    /\ tasks = <<>>
    /\ controllers = <<>>
    /\ loops = EmptyBag
    /\ sent = [i \in 0 .. (MaxTotalChunks - 1) |-> 0]
    /\ msgs = 0
    /\ toWorker = <<>>
    /\ toMain = <<>>
    /\ uploads = <<>>
    /\ deleteRequests = 0

\* BrowserRefreshState as the service is constructed with it
NewRefreshState == [wasRefreshed |-> FALSE, previousUploads |-> <<>>, timestamp |-> 0]

\* Array.includes
includes(array, x) == \E i \in 1 .. Len(array) : array[i] = x

\* The state registerActiveUpload leaves: the fileId is pushed unless the
\* array has it
Registered(state, fileId) ==
    IF ~includes(state.previousUploads, fileId)
    THEN [state EXCEPT !.previousUploads = Append(@, fileId)]
    ELSE state

\* The state unregisterUpload leaves
Unregistered(state, fileId) ==
    [state EXCEPT !.previousUploads = SelectSeq(@, LAMBDA id : id # fileId)]

\* The page loaded in a fresh browser session: nothing stored, nothing active.
RefreshInit ==
    /\ refreshStateSubject = NewRefreshState
    /\ sessionStorage = Null
    /\ now = 0
    /\ loaded = TRUE
    /\ handled = <<>>

\* No error has been handed to the retry policy.
HandlerInit ==
    /\ error = [name |-> "Error", status |-> 0, message |-> <<>>]
    /\ attemptCount = 0
    /\ retried = Null
    /\ delay = Null

Init ==
    /\ fileUploadStatusMap = <<>>
    /\ tempDirs = {}
    /\ chunkFiles = <<>>
    /\ finalFiles = <<>>
    /\ inflight = EmptyBag
    /\ ops = 0
    /\ resp = Response("none", "-", "-", "none")
    /\ finalized = {}
    /\ WorkerInit
    /\ RefreshInit
    /\ HandlerInit

\* --------------------------------------------------- FileStorageService

\* the "Basic validation" block of saveChunk and of saveChunkReactiveEnhanced
ValidChunkRequest(chunkNumber, totalChunks, chunk) ==
    /\ chunkNumber >= 0
    /\ totalChunks > 0
    /\ chunk # <<>>

\* getOrCreateUploadStatus followed by the guarded setFileName
RegisterUpload(map, fileId, totalChunks, fileName) ==
    LET created == getOrCreateUploadStatus(map, fileId, totalChunks)
    IN  IF fileName # Null /\ ~IsBlank(fileName[1])
        THEN setFileName(created, fileId, fileName)
        ELSE created

\* saveChunk, up to the call of chunkStorageService.saveChunk
SaveChunk(fileId, chunkNumber, totalChunks, chunk, fileName) ==
    /\ ops < MaxOps /\ BagCardinality(inflight) < MaxInflight
    /\ ops' = ops + 1
    /\ IF ValidChunkRequest(chunkNumber, totalChunks, chunk)
       THEN /\ fileUploadStatusMap' =
                   RegisterUpload(fileUploadStatusMap, fileId, totalChunks, fileName)
            /\ inflight' = Suspend(Request("saveChunk", "write", fileId, chunkNumber,
                                           chunk, 0, Null, <<>>,
                                           PriorOfChunk(fileId, chunkNumber, chunk, fileName)))
            /\ UNCHANGED resp
       ELSE /\ resp' = Response("saveChunk", fileId, "BadArgument", "none")
            /\ UNCHANGED <<fileUploadStatusMap, inflight>>
    /\ UNCHANGED <<tempDirs, chunkFiles, finalFiles, finalized>>
    /\ UNCHANGED clientVars

\* How chunkStorageService.saveChunk can end: the directory cannot be created,
\* the directory exists and the write fails, or the file is written.
WriteOutcomes(fileId) ==
    {"written", "writeFailed"} \cup (IF fileId \in tempDirs THEN {} ELSE {"mkdirFailed"})

\* saveChunk: chunkStorageService.saveChunk (the directory, then the file)
SaveChunkWrite(r) ==
    /\ r.op = "saveChunk" /\ r.pc = "write"
    /\ \E outcome \in WriteOutcomes(r.id) :
          /\ tempDirs' = IF outcome = "mkdirFailed" THEN tempDirs ELSE tempDirs \cup {r.id}
          /\ IF outcome = "written"
             THEN /\ chunkFiles' = ChunkStoreSave(chunkFiles, r.id, r.n, r.chunk)
                  /\ inflight' = Advance(r, [r EXCEPT !.pc = "record"])
                  /\ UNCHANGED resp
             ELSE /\ resp' = Response("saveChunk", r.id, "StorageError", r.prior)
                  /\ inflight' = Finish(r)
                  /\ UNCHANGED chunkFiles
    /\ UNCHANGED <<fileUploadStatusMap, finalFiles, ops, finalized>>
    /\ UNCHANGED clientVars

\* saveChunk: uploadStatusService.addChunk, and the return
SaveChunkRecord(r) ==
    /\ r.op = "saveChunk" /\ r.pc = "record"
    /\ fileUploadStatusMap' = addChunk(fileUploadStatusMap, r.id, r.n)
    /\ inflight' = Finish(r)
    /\ resp' = Response("saveChunk", r.id, "OK", PriorAtRecord(r))
    /\ UNCHANGED <<tempDirs, chunkFiles, finalFiles, ops, finalized>>
    /\ UNCHANGED clientVars

\* saveChunkReactiveEnhanced: the doOnSubscribe block, which runs before the
\* write is scheduled; an exception in it reaches doOnError.
SaveChunkReactiveEnhanced(fileId, chunkNumber, totalChunks, chunk, fileName) ==
    /\ ops < MaxOps /\ BagCardinality(inflight) < MaxInflight
    /\ ops' = ops + 1
    /\ IF ValidChunkRequest(chunkNumber, totalChunks, chunk)
       THEN /\ fileUploadStatusMap' =
                   addChunk(RegisterUpload(fileUploadStatusMap, fileId, totalChunks, fileName),
                            fileId, chunkNumber)
            /\ inflight' = Suspend(Request("saveChunkReactiveEnhanced", "write", fileId,
                                           chunkNumber, chunk, 0, Null, <<>>,
                                           PriorOfChunk(fileId, chunkNumber, chunk, fileName)))
            /\ UNCHANGED resp
       ELSE /\ fileUploadStatusMap' =
                   markAsFailed(fileUploadStatusMap, fileId, "Chunk save failed")
            /\ resp' = Response("saveChunkReactiveEnhanced", fileId, "BadArgument", "none")
            /\ UNCHANGED inflight
    /\ UNCHANGED <<tempDirs, chunkFiles, finalFiles, finalized>>
    /\ UNCHANGED clientVars

\* saveChunkReactiveEnhanced: the scheduled chunkStorageService.saveChunkReactive,
\* then doOnSuccess or doOnError
SaveChunkReactiveWrite(r) ==
    /\ r.op = "saveChunkReactiveEnhanced" /\ r.pc = "write"
    /\ inflight' = Finish(r)
    /\ \E outcome \in WriteOutcomes(r.id) :
          /\ tempDirs' = IF outcome = "mkdirFailed" THEN tempDirs ELSE tempDirs \cup {r.id}
          /\ IF outcome = "written"
             THEN /\ chunkFiles' = ChunkStoreSave(chunkFiles, r.id, r.n, r.chunk)
                  /\ resp' = Response("saveChunkReactiveEnhanced", r.id, "OK", r.prior)
                  /\ UNCHANGED fileUploadStatusMap
             ELSE /\ fileUploadStatusMap' =
                         markAsFailed(fileUploadStatusMap, r.id, "Chunk save failed")
                  /\ resp' = Response("saveChunkReactiveEnhanced", r.id, "StorageError", r.prior)
                  /\ UNCHANGED chunkFiles
    /\ UNCHANGED <<finalFiles, ops, finalized>>
    /\ UNCHANGED clientVars

\* completeUpload, up to the call of fileAssemblyService.assembleFile
CompleteUpload(fileId) ==
    /\ ops < MaxOps /\ BagCardinality(inflight) < MaxInflight
    /\ ops' = ops + 1
    /\ IF fileId \notin DOMAIN fileUploadStatusMap
       THEN /\ resp' = Response("completeUpload", fileId, "NotFound", "none")
            /\ UNCHANGED inflight
       ELSE IF ~isUploadComplete(fileUploadStatusMap, fileId)
       THEN /\ resp' = Response("completeUpload", fileId, "IncompleteUpload",
                                 PriorOfSession(fileId))
            /\ UNCHANGED inflight
       ELSE /\ inflight' = Suspend(Request("completeUpload", "assemble", fileId, 0, <<>>,
                                           fileUploadStatusMap[fileId].totalChunks,
                                           fileUploadStatusMap[fileId].fileName, <<>>,
                                           PriorOfSession(fileId)))
            /\ UNCHANGED resp
    /\ UNCHANGED <<fileUploadStatusMap, tempDirs, chunkFiles, finalFiles, finalized>>
    /\ UNCHANGED clientVars

\* the catch block of completeUpload: markAsFailed, rethrow
CompleteUploadFailed(r) ==
    /\ fileUploadStatusMap' =
           markAsFailed(fileUploadStatusMap, r.id, "Failed to complete upload")
    /\ inflight' = Finish(r)
    /\ resp' = Response("completeUpload", r.id, "StorageError", r.prior)

\* assembleFile: allChunksExist, getChunkFiles, determineFinalFilePath
AssembleFile(r) ==
    /\ r.op = "completeUpload" /\ r.pc = "assemble"
    /\ IF allChunksExist(chunkFiles, r.id, r.tot)
       THEN /\ inflight' = Advance(r, [r EXCEPT !.pc = "transfer", !.path =
                   determineFinalFilePath(DOMAIN finalFiles, r.name, r.id)])
            /\ UNCHANGED <<fileUploadStatusMap, resp>>
       ELSE CompleteUploadFailed(r)
    /\ UNCHANGED <<tempDirs, chunkFiles, finalFiles, ops, finalized>>
    /\ UNCHANGED clientVars

\* The chunks assembleChunksToFile transfers before it meets a missing file.
PresentPrefix(files, fileId, totalChunks) ==
    IF allChunksExist(files, fileId, totalChunks) THEN totalChunks
    ELSE CHOOSE i \in 0 .. (totalChunks - 1) :
            /\ ~chunkExists(files, fileId, i)
            /\ allChunksExist(files, fileId, i)

RemovePath(files, path) == [k \in DOMAIN files \ {path} |-> files[k]]

\* assembleChunksToFile: the disk space check, the create-or-truncate open and
\* the transfer loop.  A chunk missing in the loop raises FileStorageException,
\* which the catch (IOException) does not catch: the target keeps what was
\* transferred.  An IOException deletes the target.
AssembleChunksToFile(r) ==
    /\ r.op = "completeUpload" /\ r.pc = "transfer"
    /\ \E outcome \in {"transferred", "noSpace", "ioError"} :
          IF outcome = "noSpace"
          THEN CompleteUploadFailed(r) /\ UNCHANGED finalFiles
          ELSE IF outcome = "ioError"
          THEN CompleteUploadFailed(r) /\ finalFiles' = RemovePath(finalFiles, r.path)
          ELSE /\ finalFiles' = (r.path :> TransferChunks(chunkFiles, r.id, 0,
                                     PresentPrefix(chunkFiles, r.id, r.tot))) @@ finalFiles
               /\ IF allChunksExist(chunkFiles, r.id, r.tot)
                  THEN /\ inflight' = Advance(r, [r EXCEPT !.pc = "mark"])
                       /\ UNCHANGED <<fileUploadStatusMap, resp>>
                  ELSE CompleteUploadFailed(r)
    /\ UNCHANGED <<tempDirs, chunkFiles, ops, finalized>>
    /\ UNCHANGED clientVars

\* completeUpload: markAsCompleted, chunkStorageService.cleanupTempDirectory, return
CompleteUploadFinish(r) ==
    /\ r.op = "completeUpload" /\ r.pc = "mark"
    /\ fileUploadStatusMap' = markAsCompleted(fileUploadStatusMap, r.id)
    /\ tempDirs' = tempDirs \ {r.id}
    /\ chunkFiles' = CleanupChunkFiles(chunkFiles, r.id)
    /\ inflight' = Finish(r)
    /\ resp' = Response("completeUpload", r.id, "OK", r.prior)
    /\ finalized' = finalized \cup {r.id}
    /\ UNCHANGED <<finalFiles, ops>>
    /\ UNCHANGED clientVars

\* FileStorageService.cleanupTempDirectory: the cancel of DELETE /upload/{fileId}
CancelUpload(fileId) ==
    /\ ops < MaxOps
    /\ ops' = ops + 1
    /\ tempDirs' = tempDirs \ {fileId}
    /\ chunkFiles' = CleanupChunkFiles(chunkFiles, fileId)
    /\ fileUploadStatusMap' = removeUploadStatus(fileUploadStatusMap, fileId)
    /\ resp' = Response("cancelUpload", fileId, "OK",
                        IF resp.op = "cancelUpload" /\ resp.id = fileId
                        THEN "cancelled" ELSE "none")
    /\ finalized' = finalized \ {fileId}
    /\ UNCHANGED <<finalFiles, inflight>>
    /\ UNCHANGED clientVars

\* FileUploadController.resumeUpload: POST /upload/{fileId}/resume
ResumeUpload(fileId, totalChunks, fileName, meta) ==
    /\ ops < MaxOps
    /\ ops' = ops + 1
    /\ IF totalChunks <= 0
       THEN /\ resp' = Response("resumeUpload", fileId, "BadArgument", "none")
            /\ UNCHANGED fileUploadStatusMap
       ELSE /\ resp' = Response("resumeUpload", fileId, "OK",
                       IF /\ fileId \in DOMAIN fileUploadStatusMap
                          /\ fileUploadStatusMap[fileId].totalChunks # totalChunks
                       THEN "mismatch" ELSE "none")
            /\ fileUploadStatusMap' =
                  IF fileName # Null \/ meta[1] # Null \/ meta[2] # Null
                  THEN getOrCreateUploadStatusWithMetadata(fileUploadStatusMap, fileId,
                           totalChunks, fileName, meta[1], meta[2])
                  ELSE getOrCreateUploadStatus(fileUploadStatusMap, fileId, totalChunks)
    /\ UNCHANGED <<tempDirs, chunkFiles, finalFiles, inflight, finalized>>
    /\ UNCHANGED clientVars

\* The sessions whose lastUpdated lies maxAgeMillis or more before the call.
\* With the threshold 0 these are all of them; with a positive threshold it is
\* the time that passed between the requests, which nothing bounds, that decides.
OldEnough(maxAgeMillis) ==
    IF maxAgeMillis = 0 THEN {DOMAIN fileUploadStatusMap}
    ELSE SUBSET DOMAIN fileUploadStatusMap

\* UploadStatusService.cleanupOldUploads: only the registry records are removed
CleanupOldUploads(maxAgeMillis) ==
    /\ ops < MaxOps
    /\ ops' = ops + 1
    /\ \E old \in OldEnough(maxAgeMillis) :
          LET removed == {id \in old : \/ isComplete(fileUploadStatusMap[id])
                                       \/ fileUploadStatusMap[id].failed}
          IN  /\ fileUploadStatusMap' =
                    [k \in DOMAIN fileUploadStatusMap \ removed |-> fileUploadStatusMap[k]]
              /\ resp' = Response("cleanupOldUploads", "-",
                                  ToString(Cardinality(removed)), "none")
              /\ finalized' = finalized \ removed
    /\ UNCHANGED <<tempDirs, chunkFiles, finalFiles, inflight>>
    /\ UNCHANGED clientVars

\* --------------------------------------------------------- specification

Next ==
    \/ \E fileId \in Ids, a \in ChunkRequestArgs :
          \/ SaveChunk(fileId, a[1], a[2], a[3], a[4])
          \/ SaveChunkReactiveEnhanced(fileId, a[1], a[2], a[3], a[4])
    \/ \E r \in BagToSet(inflight) :
          \/ SaveChunkWrite(r)
          \/ SaveChunkRecord(r)
          \/ SaveChunkReactiveWrite(r)
          \/ AssembleFile(r)
          \/ AssembleChunksToFile(r)
          \/ CompleteUploadFinish(r)
    \/ \E fileId \in Ids :
          \/ CompleteUpload(fileId)
          \/ CancelUpload(fileId)
    \/ \E fileId \in Ids, totalChunks \in TotalChunksArgs, fileName \in ResumeFileNameArgs,
          meta \in MetaArgs :
          ResumeUpload(fileId, totalChunks, fileName, meta)
    \/ \E maxAgeMillis \in MaxAgeArgs :
          CleanupOldUploads(maxAgeMillis)

Spec == Init /\ [][Next]_vars

\* A server on which chunk 0 of a one-chunk upload has been saved by saveChunk.
InitUploaded ==
    /\ fileUploadStatusMap = ("a" :> StatusAddChunk(NewStatus(1), 0))
    /\ tempDirs = {"a"}
    /\ chunkFiles = (<<"a", 0>> :> <<1>>)
    /\ finalFiles = <<>>
    /\ inflight = EmptyBag
    /\ ops = 0
    /\ resp = Response("saveChunk", "a", "OK", "none")
    /\ finalized = {}
    /\ WorkerInit
    /\ RefreshInit
    /\ HandlerInit

SpecUploaded == InitUploaded /\ [][Next]_vars

\* The id of a second session, which no request names.
OtherId == "b"

\* A server that holds the session OtherId, of two chunks, with chunk 0 saved
\* by saveChunk; the requests are those of the ids in Ids.
InitSessions ==
    /\ fileUploadStatusMap = (OtherId :> StatusAddChunk(NewStatus(2), 0))
    /\ tempDirs = {OtherId}
    /\ chunkFiles = (<<OtherId, 0>> :> <<1>>)
    /\ finalFiles = <<>>
    /\ inflight = EmptyBag
    /\ ops = 0
    /\ resp = Response("saveChunk", OtherId, "OK", "none")
    /\ finalized = {}
    /\ WorkerInit
    /\ RefreshInit
    /\ HandlerInit

\* The chunk submissions, the finalize requests and the cancels of the ids in
\* Ids, step by step.
NextSessions ==
    \/ \E fileId \in Ids, a \in ChunkRequestArgs :
          \/ SaveChunk(fileId, a[1], a[2], a[3], a[4])
          \/ SaveChunkReactiveEnhanced(fileId, a[1], a[2], a[3], a[4])
    \/ \E r \in BagToSet(inflight) :
          \/ SaveChunkWrite(r)
          \/ SaveChunkRecord(r)
          \/ SaveChunkReactiveWrite(r)
          \/ AssembleFile(r)
          \/ AssembleChunksToFile(r)
          \/ CompleteUploadFinish(r)
    \/ \E fileId \in Ids :
          \/ CompleteUpload(fileId)
          \/ CancelUpload(fileId)

SpecSessions == InitSessions /\ [][NextSessions]_vars

\* ------------------------------------------------------- upload.worker.ts

\* The indices of a set in ascending order: Array.from of a Set that was filled
\* by a loop over 0 .. totalChunks - 1.
RECURSIVE Ascending(_)
Ascending(indices) ==
    IF indices = {} THEN <<>>
    ELSE LET least == CHOOSE i \in indices : \A j \in indices : i <= j
         IN  <<least>> \o Ascending(indices \ {least})

\* "Calculate missing chunks": the indices below totalChunks not yet uploaded
MissingChunksSet(totalChunks, uploadedChunks) ==
    {i \in 0 .. (totalChunks - 1) : i \notin uploadedChunks}

\* A startUpload call suspended in the await of a chunk request
ChunkLoop(task, signal, chunkIndex, rest) ==
    [pc |-> "uploadMissingChunk", task |-> task, signal |-> signal,
     chunkIndex |-> chunkIndex, rest |-> rest]

\* A startUpload call suspended in the await of the complete request
CompleteLoop(task) ==
    [pc |-> "completeUpload", task |-> task, signal |-> 0, chunkIndex |-> -1,
     rest |-> <<>>]

\* A message of the worker to the main thread (UploadWorkerResponse): a
\* 'progress' carries uploadedChunks, a 'chunkCompleted' the chunkIndex.
WorkerResponse(type, fileId, uploadedChunks, chunkIndex) ==
    [type |-> type, fileId |-> fileId, uploadedChunks |-> uploadedChunks,
     chunkIndex |-> chunkIndex]

\* response.ok of fetch
ResponseOk(status) == status \in 200 .. 299

\* startUpload that returns past its for loop without the complete request.
\* A faulty variant, against which C40 is tried.
DispatchLoopWithoutComplete(t, rest, ts, others, posted) ==
    IF rest # <<>>
    THEN /\ toMain' = posted
         /\ IF ts[t].isPaused \/ controllers'[ts[t].controller]
            THEN loops' = others /\ UNCHANGED sent
            ELSE /\ loops' = others (+) SetToBag({ChunkLoop(t, ts[t].controller,
                                                            Head(rest), Tail(rest))})
                 /\ sent' = [sent EXCEPT ![Head(rest)] = @ + 1]
    ELSE /\ loops' = others
         /\ toMain' = posted
         /\ UNCHANGED sent

\* startUpload from the head of its for loop, for the task object t as the
\* objects are in ts, with rest still to upload, the other calls in others and
\* posted the messages to the main thread with those this step has posted:
\* it returns when the task is paused, issues the request of the next chunk,
\* or, past the loop, posts 'completing' and issues the complete request when
\* every chunk is uploaded.
DispatchLoop(t, rest, ts, others, posted) ==
    IF rest # <<>>
    THEN /\ toMain' = posted
         /\ IF ts[t].isPaused \/ controllers'[ts[t].controller]
            THEN loops' = others /\ UNCHANGED sent
            ELSE /\ loops' = others (+) SetToBag({ChunkLoop(t, ts[t].controller,
                                                            Head(rest), Tail(rest))})
                 /\ sent' = [sent EXCEPT ![Head(rest)] = @ + 1]
    ELSE /\ IF Cardinality(ts[t].uploadedChunks) = ts[t].totalChunks
            THEN /\ loops' = others (+) SetToBag({CompleteLoop(t)})
                 /\ toMain' = Append(posted, WorkerResponse("completing", ts[t].fileId, {}, -1))
            ELSE /\ loops' = others
                 /\ toMain' = posted
         /\ UNCHANGED sent

\* startUpload: the handler of the messages 'start' and 'resume', up to its
\* first await
startUpload(fileId, totalChunks, uploadedChunks) ==
    /\ toWorker # <<>>
    /\ \E type \in {"start", "resume"} :
          Head(toWorker) = Message(type, fileId, totalChunks, uploadedChunks)
    /\ toWorker' = Tail(toWorker)
    /\ msgs' = msgs + 1
    /\ IF totalChunks = 0
       THEN /\ toMain' = Append(toMain, WorkerResponse("failed", fileId, {}, -1))
            /\ UNCHANGED <<uploadTasks, tasks, controllers, loops, sent>>
       ELSE LET t == IF fileId \in DOMAIN uploadTasks
                     THEN uploadTasks[fileId] ELSE Len(tasks) + 1
                c == Len(controllers) + 1
                task == IF fileId \in DOMAIN uploadTasks
                        THEN [tasks[t] EXCEPT
                                !.isPaused = FALSE,
                                !.controller = c,
                                !.missingChunks =
                                    MissingChunksSet(tasks[t].totalChunks,
                                                     tasks[t].uploadedChunks)]
                        ELSE [fileId |-> fileId, totalChunks |-> totalChunks,
                              uploadedChunks |-> uploadedChunks,
                              missingChunks |-> MissingChunksSet(totalChunks, uploadedChunks),
                              isPaused |-> FALSE, controller |-> c]
                ts == IF fileId \in DOMAIN uploadTasks
                      THEN [tasks EXCEPT ![t] = task] ELSE Append(tasks, task)
            IN  /\ controllers' = Append(controllers, FALSE)
                /\ tasks' = ts
                /\ uploadTasks' = (fileId :> t) @@ uploadTasks
                /\ DispatchLoop(t, Ascending(task.missingChunks), ts, loops,
                                Append(toMain, WorkerResponse("progress", fileId,
                                                              task.uploadedChunks, -1)))
    /\ UNCHANGED <<serverVars, serviceVars, handlerVars, refreshVars>>

\* The chunk request of a suspended startUpload settles with an HTTP status:
\* on success the chunk is marked uploaded, 'chunkCompleted' and 'progress'
\* are posted and the loop goes on; on an error 'failed' is posted and the call
\* returns.
uploadMissingChunkReturns(l, status) ==
    /\ l.pc = "uploadMissingChunk"
    /\ IF ResponseOk(status)
       THEN LET ts == [tasks EXCEPT
                         ![l.task].uploadedChunks = @ \cup {l.chunkIndex},
                         ![l.task].missingChunks = @ \ {l.chunkIndex}]
                fileId == tasks[l.task].fileId
            IN  /\ tasks' = ts
                /\ UNCHANGED controllers
                /\ DispatchLoop(l.task, l.rest, ts, loops (-) SetToBag({l}),
                                toMain \o <<WorkerResponse("chunkCompleted", fileId,
                                                           {}, l.chunkIndex),
                                            WorkerResponse("progress", fileId,
                                                           ts[l.task].uploadedChunks, -1)>>)
       ELSE /\ loops' = loops (-) SetToBag({l})
            /\ toMain' = Append(toMain, WorkerResponse("failed", tasks[l.task].fileId,
                                                       {}, -1))
            /\ UNCHANGED <<tasks, controllers, sent>>
    /\ UNCHANGED <<uploadTasks, msgs, toWorker>>
    /\ UNCHANGED <<serverVars, serviceVars, handlerVars, refreshVars>>

\* completeUploadReturns without the test of response.ok
completeUploadReturnsUnchecked(l, status) ==
    /\ l.pc = "completeUpload"
    /\ loops' = loops (-) SetToBag({l})
    /\ LET fileId == tasks[l.task].fileId
       IN  /\ toMain' = Append(toMain, WorkerResponse("completed", fileId, {}, -1))
           /\ uploadTasks' = [k \in DOMAIN uploadTasks \ {fileId} |-> uploadTasks[k]]
    /\ UNCHANGED <<tasks, controllers, sent, msgs, toWorker>>
    /\ UNCHANGED <<serverVars, serviceVars, handlerVars, refreshVars>>

\* The complete request of a suspended startUpload settles: on success
\* 'completed' is posted and uploadTasks.delete(fileId); on an error 'failed'
\* is posted.
completeUploadReturns(l, status) ==
    /\ l.pc = "completeUpload"
    /\ loops' = loops (-) SetToBag({l})
    /\ LET fileId == tasks[l.task].fileId
       IN  IF ResponseOk(status)
           THEN /\ toMain' = Append(toMain, WorkerResponse("completed", fileId, {}, -1))
                /\ uploadTasks' = [k \in DOMAIN uploadTasks \ {fileId} |-> uploadTasks[k]]
           ELSE /\ toMain' = Append(toMain, WorkerResponse("failed", fileId, {}, -1))
                /\ UNCHANGED uploadTasks
    /\ UNCHANGED <<tasks, controllers, sent, msgs, toWorker>>
    /\ UNCHANGED <<serverVars, serviceVars, handlerVars, refreshVars>>

\* controller.abort(): the chunk requests made with that signal reject with an
\* AbortError, on which their startUpload calls return before the next message.
AbortLoops(controller) ==
    BagOfAll(LAMBDA l : l,
             [l \in {x \in BagToSet(loops) :
                        ~(x.pc = "uploadMissingChunk" /\ x.signal = controller)}
                |-> CopiesIn(l, loops)])

\* pauseUpload: the handler of the message 'pause'
pauseUpload(fileId) ==
    /\ toWorker # <<>>
    /\ Head(toWorker) = Message("pause", fileId, 0, {})
    /\ toWorker' = Tail(toWorker)
    /\ msgs' = msgs + 1
    /\ IF fileId \in DOMAIN uploadTasks
       THEN LET t == uploadTasks[fileId]
            IN  /\ tasks' = [tasks EXCEPT ![t].isPaused = TRUE]
                /\ controllers' = [controllers EXCEPT ![tasks[t].controller] = TRUE]
                /\ loops' = AbortLoops(tasks[t].controller)
       ELSE UNCHANGED <<tasks, controllers, loops>>
    /\ UNCHANGED <<uploadTasks, sent, toMain>>
    /\ UNCHANGED <<serverVars, serviceVars, handlerVars, refreshVars>>

\* cancelUpload: the handler of the message 'cancel'
cancelUpload(fileId) ==
    /\ toWorker # <<>>
    /\ Head(toWorker) = Message("cancel", fileId, 0, {})
    /\ toWorker' = Tail(toWorker)
    /\ msgs' = msgs + 1
    /\ IF fileId \in DOMAIN uploadTasks
       THEN LET t == uploadTasks[fileId]
            IN  /\ tasks' = [tasks EXCEPT ![t].isPaused = TRUE]
                /\ controllers' = [controllers EXCEPT ![tasks[t].controller] = TRUE]
                /\ loops' = AbortLoops(tasks[t].controller)
                /\ uploadTasks' = [k \in DOMAIN uploadTasks \ {fileId} |-> uploadTasks[k]]
       ELSE UNCHANGED <<uploadTasks, tasks, controllers, loops>>
    /\ UNCHANGED <<sent, toMain>>
    /\ UNCHANGED <<serverVars, serviceVars, handlerVars, refreshVars>>

\* The steps of the worker: a message is handled, a request settles
WorkerStep ==
    \/ \E fileId \in Ids, totalChunks \in PayloadTotalChunksArgs,
          uploadedChunks \in PayloadUploadedChunksArgs :
          startUpload(fileId, totalChunks, uploadedChunks)
    \/ \E l \in BagToSet(loops), status \in ResponseStatusArgs :
          \/ uploadMissingChunkReturns(l, status)
          \/ completeUploadReturns(l, status)
    \/ \E fileId \in Ids :
          \/ pauseUpload(fileId)
          \/ cancelUpload(fileId)

\* ------------------------------------------------------------ UploadService

\* An upload of the list of the service: the fields the service decides on
UploadFile(status, totalChunks, uploadedChunks) ==
    [status |-> status, totalChunks |-> totalChunks, uploadedChunks |-> uploadedChunks]

\* handleWorkerMessage: worker.onmessage of the service
handleWorkerMessage ==
    /\ toMain # <<>>
    /\ toMain' = Tail(toMain)
    /\ LET response == Head(toMain)
           fileId == response.fileId
       IN  IF fileId \in DOMAIN uploads
           THEN uploads' =
                  [uploads EXCEPT ![fileId] =
                     CASE response.type = "progress" ->
                            [@ EXCEPT !.uploadedChunks = response.uploadedChunks]
                       [] response.type = "chunkCompleted" ->
                            [@ EXCEPT !.uploadedChunks = @ \cup {response.chunkIndex}]
                       [] response.type = "completing" -> [@ EXCEPT !.status = "completing"]
                       [] response.type = "completed" -> [@ EXCEPT !.status = "completed"]
                       [] response.type = "failed" -> [@ EXCEPT !.status = "failed"]]
           ELSE UNCHANGED uploads
    /\ LET response == Head(toMain)
       IN  refreshStateSubject' =
              IF /\ response.fileId \in DOMAIN uploads
                 /\ response.type \in {"completed", "failed"}
              THEN Unregistered(refreshStateSubject, response.fileId)
              ELSE refreshStateSubject
    /\ UNCHANGED <<uploadTasks, tasks, controllers, loops, sent, msgs, toWorker>>
    /\ UNCHANGED <<serverVars, deleteRequests, handlerVars>>
    /\ UNCHANGED <<sessionStorage, now, loaded, handled>>

\* worker.postMessage(message) of any message to the worker
postMessage(message) ==
    /\ msgs + Len(toWorker) < MaxMessages
    /\ toWorker' = Append(toWorker, message)
    /\ UNCHANGED <<uploadTasks, tasks, controllers, loops, sent, msgs, toMain>>
    /\ UNCHANGED <<serverVars, serviceVars, handlerVars, refreshVars>>

\* uploadFile without a fileId (startNewUpload, startUpload, startWorkerUpload):
\* the upload gets a fresh uuid, is appended as 'pending', set to 'uploading'
\* and a 'start' is posted.
uploadFile(fileId, totalChunks) ==
    /\ msgs + Len(toWorker) < MaxMessages
    /\ fileId \notin DOMAIN uploads
    /\ uploads' = (fileId :> UploadFile("uploading", totalChunks, {})) @@ uploads
    /\ refreshStateSubject' = Registered(refreshStateSubject, fileId)
    /\ toWorker' = Append(toWorker, Message("start", fileId, totalChunks, {}))
    /\ UNCHANGED <<uploadTasks, tasks, controllers, loops, sent, msgs, toMain>>
    /\ UNCHANGED <<serverVars, deleteRequests, handlerVars>>
    /\ UNCHANGED <<sessionStorage, now, loaded, handled>>

\* UploadService.pauseUpload
servicePauseUpload(fileId) ==
    /\ msgs + Len(toWorker) < MaxMessages
    /\ fileId \in DOMAIN uploads
    /\ uploads[fileId].status = "uploading"
    /\ uploads' = [uploads EXCEPT ![fileId].status = "paused"]
    /\ toWorker' = Append(toWorker, Message("pause", fileId, 0, {}))
    /\ UNCHANGED <<uploadTasks, tasks, controllers, loops, sent, msgs, toMain>>
    /\ UNCHANGED <<serverVars, deleteRequests, handlerVars, refreshVars>>

\* UploadService.resumeUpload
resumeUpload(fileId) ==
    /\ msgs + Len(toWorker) < MaxMessages
    /\ fileId \in DOMAIN uploads
    /\ uploads[fileId].status \in {"paused", "failed"}
    /\ uploads' = [uploads EXCEPT ![fileId].status = "uploading"]
    /\ toWorker' = Append(toWorker, Message("resume", fileId, uploads[fileId].totalChunks,
                                            uploads[fileId].uploadedChunks))
    /\ UNCHANGED <<uploadTasks, tasks, controllers, loops, sent, msgs, toMain>>
    /\ UNCHANGED <<serverVars, deleteRequests, handlerVars, refreshVars>>

\* UploadService.cancelUpload
serviceCancelUpload(fileId) ==
    /\ msgs + Len(toWorker) < MaxMessages
    /\ fileId \in DOMAIN uploads
    /\ uploads' = [uploads EXCEPT ![fileId].status = "cancelled"]
    /\ refreshStateSubject' = Unregistered(refreshStateSubject, fileId)
    /\ toWorker' = Append(toWorker, Message("cancel", fileId, 0, {}))
    /\ deleteRequests' = deleteRequests + 1
    /\ UNCHANGED <<uploadTasks, tasks, controllers, loops, sent, msgs, toMain>>
    /\ UNCHANGED <<serverVars, handlerVars>>
    /\ UNCHANGED <<sessionStorage, now, loaded, handled>>

\* The server handles the chunk request of a suspended startUpload (saveChunk
\* with a write that succeeds): the session is registered, the chunk file
\* written and the chunk recorded.
saveChunkServed(l) ==
    /\ l.pc = "uploadMissingChunk"
    /\ LET fileId == tasks[l.task].fileId
       IN  /\ fileUploadStatusMap' =
                  addChunk(RegisterUpload(fileUploadStatusMap, fileId,
                                          tasks[l.task].totalChunks, Some(NameFTxt)),
                           fileId, l.chunkIndex)
           /\ tempDirs' = tempDirs \cup {fileId}
           /\ chunkFiles' = ChunkStoreSave(chunkFiles, fileId, l.chunkIndex, <<1>>)
    /\ fileUploadStatusMap' # fileUploadStatusMap
    /\ UNCHANGED <<finalFiles, inflight, ops, resp, finalized>>
    /\ UNCHANGED clientVars

\* The server handles a DELETE request of the service (cancelUpload)
cancelUploadServed(fileId) ==
    /\ deleteRequests > 0
    /\ deleteRequests' = deleteRequests - 1
    /\ tempDirs' = tempDirs \ {fileId}
    /\ chunkFiles' = CleanupChunkFiles(chunkFiles, fileId)
    /\ fileUploadStatusMap' = removeUploadStatus(fileUploadStatusMap, fileId)
    /\ UNCHANGED <<finalFiles, inflight, ops, resp, finalized>>
    /\ UNCHANGED <<workerVars, uploads, handlerVars, refreshVars>>

\* The chunk of a chunk request is recorded in the session on the server
ChunkRecorded(l) ==
    LET fileId == tasks[l.task].fileId
    IN  /\ fileId \in DOMAIN fileUploadStatusMap
        /\ l.chunkIndex \in fileUploadStatusMap[fileId].receivedChunks

\* The service, its worker and the requests they make of the server.  A chunk
\* request is answered with success only when the server has recorded the
\* chunk; a complete request is answered with any status.
NextClient ==
    \/ \E fileId \in Ids, totalChunks \in FileTotalChunksArgs : uploadFile(fileId, totalChunks)
    \/ \E fileId \in Ids :
          \/ servicePauseUpload(fileId)
          \/ resumeUpload(fileId)
          \/ serviceCancelUpload(fileId)
          \/ cancelUploadServed(fileId)
    \/ handleWorkerMessage
    \/ \E fileId \in Ids, totalChunks \in PayloadTotalChunksArgs \cup FileTotalChunksArgs,
          uploadedChunks \in SUBSET (0 .. (MaxTotalChunks - 1)) :
          startUpload(fileId, totalChunks, uploadedChunks)
    \/ \E fileId \in Ids :
          \/ pauseUpload(fileId)
          \/ cancelUpload(fileId)
    \/ \E l \in BagToSet(loops) :
          \/ saveChunkServed(l)
          \/ \E status \in ResponseStatusArgs :
                \/ /\ ResponseOk(status) => ChunkRecorded(l)
                   /\ uploadMissingChunkReturns(l, status)
                \/ completeUploadReturns(l, status)

SpecClient == Init /\ [][NextClient]_vars

\* The worker under any sequence of messages
NextWorker ==
    \/ \E message \in MessageArgs : postMessage(message)
    \/ WorkerStep
    \/ handleWorkerMessage

SpecWorker == Init /\ [][NextWorker]_vars

\* ------------------------------------------------------ UploadRetryHandler

\* environment.upload of the configuration
retryAttempts == 3
retryDelay == 1000

getMaxRetries == retryAttempts

toLowerCase(word) ==
    CASE word = "Network" -> "network"
      [] word = "Timeout" -> "timeout"
      [] word = "Failed" -> "failed"
      [] OTHER -> word

\* message.toLowerCase().includes(word)
MessageIncludes(message, word) ==
    \E i \in 1 .. Len(message) : toLowerCase(message[i]) = word

isRetryableError(e) ==
    IF e.name = "NetworkError" \/ e.name = "TimeoutError" THEN TRUE
    ELSE IF e.status # 0
    THEN \/ e.status >= 500
         \/ e.status \in {408, 429, 502, 503, 504}
    ELSE IF e.message # <<>>
    THEN \E word \in {"network", "timeout", "connection", "fetch"} :
            MessageIncludes(e.message, word)
    ELSE FALSE

isNonRetryableError(e) ==
    IF e.name = "AbortError" THEN TRUE
    ELSE IF e.status # 0
    THEN e.status \in {400, 401, 403, 404, 413, 415}
    ELSE FALSE

\* shouldRetry with the test of the retryable errors made first
shouldRetryRetryableFirst(e, attempts) ==
    IF attempts >= getMaxRetries THEN FALSE
    ELSE IF isRetryableError(e) THEN TRUE
    ELSE FALSE

shouldRetry(e, attempts) ==
    IF attempts >= getMaxRetries THEN FALSE
    ELSE IF isNonRetryableError(e) THEN FALSE
    ELSE IF isRetryableError(e) THEN TRUE
    ELSE FALSE

Min(a, b) == IF a <= b THEN a ELSE b

\* getRetryDelay without the cap of 30 seconds
getRetryDelayUncapped(attempts) ==
    LET exponentialDelay == retryDelay * 2 ^ attempts
    IN  {exponentialDelay + (random * exponentialDelay) \div (10 * RandomScale) :
            random \in 0 .. (RandomScale - 1)}

\* The values getRetryDelay can return for attempts: one for each value of
\* Math.random().  Delays are whole milliseconds.
getRetryDelay(attempts) ==
    LET exponentialDelay == retryDelay * 2 ^ attempts
    IN  {Min(exponentialDelay + (random * exponentialDelay) \div (10 * RandomScale),
             30000) : random \in 0 .. (RandomScale - 1)}

shouldRetryCall ==
    /\ retried = Null
    /\ retried' = Some(shouldRetry(error, attemptCount))
    /\ UNCHANGED <<error, attemptCount, delay>>
    /\ UNCHANGED <<serverVars, workerVars, serviceVars, refreshVars>>

getRetryDelayCall ==
    /\ delay = Null
    /\ \E d \in getRetryDelay(attemptCount) : delay' = Some(d)
    /\ UNCHANGED <<error, attemptCount, retried>>
    /\ UNCHANGED <<serverVars, workerVars, serviceVars, refreshVars>>

\* The retry policy asked about some error after some number of attempts.
InitRetry ==
    /\ fileUploadStatusMap = <<>>
    /\ tempDirs = {}
    /\ chunkFiles = <<>>
    /\ finalFiles = <<>>
    /\ inflight = EmptyBag
    /\ ops = 0
    /\ resp = Response("none", "-", "-", "none")
    /\ finalized = {}
    /\ WorkerInit
    /\ RefreshInit
    /\ error \in ErrorArgs
    /\ attemptCount \in AttemptCountArgs
    /\ retried = Null
    /\ delay = Null

NextRetry == shouldRetryCall \/ getRetryDelayCall

SpecRetry == InitRetry /\ [][NextRetry]_vars

\* ------------------------------------------------- BrowserRefreshService

\* isRecentState: the saved state is less than five minutes old
FIVE_MINUTES == 1

isRecentState(state) == now - state.timestamp < FIVE_MINUTES

\* registerActiveUpload, called by uploadFile for a new upload
registerActiveUpload(fileId) ==
    /\ loaded
    /\ refreshStateSubject' = Registered(refreshStateSubject, fileId)
    /\ UNCHANGED <<sessionStorage, now, loaded, handled>>
    /\ UNCHANGED <<serverVars, workerVars, serviceVars, handlerVars>>

\* unregisterUpload, called by handleUploadCompletion when an upload has
\* completed, failed or been cancelled
unregisterUpload(fileId) ==
    /\ loaded
    /\ refreshStateSubject' = Unregistered(refreshStateSubject, fileId)
    /\ UNCHANGED <<sessionStorage, now, loaded, handled>>
    /\ UNCHANGED <<serverVars, workerVars, serviceVars, handlerVars>>

\* saveCurrentState: the item of sessionStorage after the call.  The item is
\* written only when some upload is active.
saveCurrentState ==
    IF Len(refreshStateSubject.previousUploads) > 0
    THEN Some([previousUploads |-> refreshStateSubject.previousUploads,
               timestamp |-> now])
    ELSE sessionStorage

\* The listener of visibilitychange, the document having become hidden
visibilitychange ==
    /\ loaded
    /\ sessionStorage' = saveCurrentState
    /\ UNCHANGED <<refreshStateSubject, now, loaded, handled>>
    /\ UNCHANGED <<serverVars, workerVars, serviceVars, handlerVars>>

\* The listener of beforeunload; the page and its service are gone after it
beforeunload ==
    /\ loaded
    /\ sessionStorage' = saveCurrentState
    /\ loaded' = FALSE
    /\ refreshStateSubject' = NewRefreshState
    /\ UNCHANGED <<now, handled>>
    /\ UNCHANGED <<serverVars, workerVars, serviceVars, handlerVars>>

\* The page loads: initializeRefreshDetection in the constructor of the
\* service, then handleBrowserRefresh in the constructor of UploadService.  A
\* recent saved state makes wasRefreshed true and its previousUploads are the
\* uploads the component takes as active before the refresh; then
\* clearRefreshState.  Any other saved state is removed by clearState.
initializeRefreshDetection ==
    /\ ~loaded
    /\ loaded' = TRUE
    /\ handled' = IF sessionStorage # Null /\ isRecentState(sessionStorage[1])
                  THEN sessionStorage[1].previousUploads
                  ELSE <<>>
    /\ sessionStorage' = Null
    /\ refreshStateSubject' = NewRefreshState
    /\ UNCHANGED now
    /\ UNCHANGED <<serverVars, workerVars, serviceVars, handlerVars>>

\* Five minutes pass.
Tick ==
    /\ now < MaxClock
    /\ now' = now + 1
    /\ UNCHANGED <<refreshStateSubject, sessionStorage, loaded, handled>>
    /\ UNCHANGED <<serverVars, workerVars, serviceVars, handlerVars>>

NextRefresh ==
    \/ \E fileId \in RefreshIds :
          \/ registerActiveUpload(fileId)
          \/ unregisterUpload(fileId)
    \/ visibilitychange
    \/ beforeunload
    \/ initializeRefreshDetection
    \/ Tick

SpecRefresh == Init /\ [][NextRefresh]_vars

\* An upload that is started and neither paused nor cancelled, every request
\* of which the server answers with success: the event loop of the worker, the
\* server and the event loop of the main thread.  Meanwhile the page may
\* become hidden, and time passes.
WorkerLoop ==
    \/ \E fileId \in Ids, totalChunks \in FileTotalChunksArgs :
          startUpload(fileId, totalChunks, {})
    \/ \E l \in BagToSet(loops) :
          \/ ChunkRecorded(l) /\ uploadMissingChunkReturns(l, 200)
          \/ completeUploadReturns(l, 200)

ServerLoop == \E l \in BagToSet(loops) : saveChunkServed(l)

NextStarted ==
    \/ \E fileId \in Ids, totalChunks \in FileTotalChunksArgs : uploadFile(fileId, totalChunks)
    \/ WorkerLoop
    \/ ServerLoop
    \/ handleWorkerMessage
    \/ visibilitychange
    \/ Tick

\* Each event loop runs the tasks queued for it, and the server answers.
SpecStarted ==
    /\ Init
    /\ [][NextStarted]_vars
    /\ WF_vars(WorkerLoop)
    /\ WF_vars(ServerLoop)
    /\ WF_vars(handleWorkerMessage)

\* ------------------------------------------------------------------ claims

\* C1: for every session, every index in receivedChunks lies in
\* [0, totalChunks) of that session.
C1_ReceivedChunksInRange ==
    \A id \in DOMAIN fileUploadStatusMap :
        fileUploadStatusMap[id].receivedChunks \subseteq
            0 .. (fileUploadStatusMap[id].totalChunks - 1)

\* C2: an index is in receivedChunks only when its chunk file is written: once
\* no request is being processed, every index recorded in a session that has
\* not been finalized has its chunk file in the chunk store (a chunk whose
\* write failed is not left recorded).
C2_RecordedChunksOnDisk ==
    inflight = EmptyBag =>
        \A id \in DOMAIN fileUploadStatusMap :
            ~fileUploadStatusMap[id].completed =>
                \A n \in fileUploadStatusMap[id].receivedChunks :
                    chunkExists(chunkFiles, id, n)

\* C3: a session is reported complete exactly when all totalChunks chunks are
\* received and a finalize of it has returned success.
C3_CompletedIffFinalized ==
    \A id \in DOMAIN fileUploadStatusMap :
        isComplete(fileUploadStatusMap[id]) <=>
            /\ Cardinality(fileUploadStatusMap[id].receivedChunks) =
                   fileUploadStatusMap[id].totalChunks
            /\ id \in finalized

\* C4: the step in which a finalize returns success removes the session from
\* the registry, and a finalize of a session that was finalized before returns
\* NotFound without starting the assembler.
C4_FinalizeRemovesSession ==
    [][/\ \A r \in BagToSet(inflight) :
             CompleteUploadFinish(r) => r.id \notin DOMAIN fileUploadStatusMap'
       /\ \A id \in Ids :
             CompleteUpload(id) /\ id \in finalized =>
                 resp'.code = "NotFound" /\ inflight' = inflight]_vars

\* C5: a chunk submission that was in flight when its session was cancelled
\* (its session is absent from the registry) is discarded: its completion
\* leaves no temporary directory, no chunk file and no session for the id.
C5_CancelledSubmissionDiscarded ==
    [][\A r \in BagToSet(inflight) :
          /\ r.id \notin DOMAIN fileUploadStatusMap
          /\ (SaveChunkWrite(r) \/ SaveChunkRecord(r) \/ SaveChunkReactiveWrite(r))
          => /\ r.id \notin tempDirs'
             /\ \A k \in DOMAIN chunkFiles' : k[1] # r.id
             /\ r.id \notin DOMAIN fileUploadStatusMap']_vars

\* C6: a saveChunk whose index is already recorded with the same bytes, and
\* whose fileName the session has taken, is a replay: the step that accepts it
\* (it puts the request in flight) and every later step of it that does not
\* fail leave the session record (receivedChunks, uploadedBytes, state,
\* fileName) and the chunk files as they are.
C6_ReplayIsIdempotent ==
    [][/\ \A r \in BagToSet(inflight') :
             /\ CopiesIn(r, inflight') > CopiesIn(r, inflight)
             /\ r.pc = "write" /\ r.prior = "recorded"
             => fileUploadStatusMap' = fileUploadStatusMap
       /\ \A r \in BagToSet(inflight) :
             /\ PriorOfChunk(r.id, r.n, r.chunk, Null) = "recorded"
             /\ \/ SaveChunkWrite(r) /\ inflight' # Finish(r)
                \/ SaveChunkRecord(r)
                \/ SaveChunkReactiveWrite(r) /\ resp'.code = "OK"
             => /\ fileUploadStatusMap' = fileUploadStatusMap
                /\ chunkFiles' = chunkFiles]_vars

\* A replay of the only chunk of a session with a declared chunkSize has
\* returned success, and the bytes are counted once.
C6_Witness ==
    \E id \in DOMAIN fileUploadStatusMap :
        /\ resp.op \in {"saveChunk", "saveChunkReactiveEnhanced"}
        /\ resp.id = id /\ resp.code = "OK" /\ resp.prior = "recorded"
        /\ fileUploadStatusMap[id].chunkSize # Null
        /\ Cardinality(fileUploadStatusMap[id].receivedChunks) = 1
        /\ fileUploadStatusMap[id].uploadedBytes = fileUploadStatusMap[id].chunkSize[1]

\* C7: a finalize of a session whose number of received chunks differs from
\* totalChunks is refused as IncompleteUpload and changes nothing: the session
\* record, the temporary directory, the chunk files and the destination files
\* stay, and no assembly is started.
C7_IncompleteFinalizeRefused ==
    [][\A id \in Ids :
          /\ id \in DOMAIN fileUploadStatusMap
          /\ Cardinality(fileUploadStatusMap[id].receivedChunks) #
                 fileUploadStatusMap[id].totalChunks
          /\ CompleteUpload(id)
          => /\ resp'.code = "IncompleteUpload"
             /\ UNCHANGED <<fileUploadStatusMap, tempDirs, chunkFiles, finalFiles,
                            inflight>>]_vars

\* C8: the step in which the assembler fails during a finalize marks the session
\* Failed with the error and changes nothing else of it (receivedChunks stay),
\* and leaves the temporary directory and every chunk file in place.
C8_AssemblerFailureKeepsChunks ==
    [][\A r \in BagToSet(inflight) :
          /\ AssembleFile(r) \/ AssembleChunksToFile(r)
          /\ inflight' = Finish(r)
          /\ r.id \in DOMAIN fileUploadStatusMap
          => /\ fileUploadStatusMap' =
                    [fileUploadStatusMap EXCEPT
                        ![r.id].failed = TRUE,
                        ![r.id].errorMessage = Some("Failed to complete upload")]
             /\ tempDirs' = tempDirs
             /\ chunkFiles' = chunkFiles]_vars

\* A finalize that started on a session marked Failed by an earlier finalize
\* has returned success.
C8_Witness ==
    \E id \in finalized :
        /\ resp = Response("completeUpload", id, "OK", "failed")
        /\ id \in DOMAIN fileUploadStatusMap
        /\ fileUploadStatusMap[id].errorMessage = Some("Failed to complete upload")
        /\ Cardinality(fileUploadStatusMap[id].receivedChunks) =
               fileUploadStatusMap[id].totalChunks

RECURSIVE AscendingConcat(_, _, _)
\* chunk 0 \o chunk 1 \o ... \o chunk (k - 1), built from the last one down
AscendingConcat(files, fileId, k) ==
    IF k = 0 THEN <<>>
    ELSE AscendingConcat(files, fileId, k - 1) \o files[<<fileId, k - 1>>]

\* C9: the step in which the assembler writes the destination of a finalize
\* that goes on to succeed makes it the concatenation of the chunk files
\* 0 .. totalChunks-1 in ascending index order, in every behaviour, that is,
\* whatever order the chunks were submitted in.
C9_AssembledInAscendingOrder ==
    [][\A r \in BagToSet(inflight) :
          /\ AssembleChunksToFile(r)
          /\ inflight' = Advance(r, [r EXCEPT !.pc = "mark"])
          => /\ r.path \in DOMAIN finalFiles'
             /\ finalFiles'[r.path] = AscendingConcat(chunkFiles, r.id, r.tot)]_vars

\* A two-chunk upload with chunks of different bytes has been finalized.
C9_Witness ==
    \E id \in finalized :
        /\ resp = Response("completeUpload", id, "OK", "none")
        /\ id \in DOMAIN fileUploadStatusMap
        /\ fileUploadStatusMap[id].totalChunks = 2
        /\ \E path \in DOMAIN finalFiles : finalFiles[path] = <<1, 2, 2>>

\* C10: no session is both Completed and Failed.
C10_NeverCompletedAndFailed ==
    \A id \in DOMAIN fileUploadStatusMap :
        ~(fileUploadStatusMap[id].completed /\ fileUploadStatusMap[id].failed)

\* C11: the step in which a chunk submission writes its chunk file leaves the
\* file holding exactly the bytes of that submission (no byte of an earlier,
\* longer submission survives) and leaves the session record as it is.
C11_ReplayTruncatesChunkFile ==
    [][\A r \in BagToSet(inflight) :
          \/ SaveChunkWrite(r) /\ inflight' # Finish(r)
          \/ SaveChunkReactiveWrite(r) /\ resp'.code = "OK"
          => /\ chunkFiles'[<<r.id, r.n>>] = r.chunk
             /\ fileUploadStatusMap' = fileUploadStatusMap]_vars

\* C12: the step in which a chunk submission returns success on a session that
\* no finalize has touched (none has succeeded, none is in flight) leaves the
\* session Active (reported neither complete nor failed), keeps every chunk
\* file and creates no destination file - also when it was the last missing
\* chunk.
C12_SaveChunkNeverFinalizes ==
    [][\A r \in BagToSet(inflight) :
          /\ SaveChunkRecord(r) \/ (SaveChunkReactiveWrite(r) /\ resp'.code = "OK")
          /\ r.id \in DOMAIN fileUploadStatusMap'
          /\ r.id \notin finalized
          /\ \A q \in BagToSet(inflight) : q.id = r.id => q.op # "completeUpload"
          /\ ~fileUploadStatusMap'[r.id].failed
          => /\ ~isComplete(fileUploadStatusMap'[r.id])
             /\ finalFiles' = finalFiles
             /\ \A k \in DOMAIN chunkFiles : k \in DOMAIN chunkFiles']_vars

BytesCountedOnce(status) ==
    status.uploadedBytes =
        IF status.chunkSize = Null THEN 0
        ELSE status.chunkSize[1] * Cardinality(status.receivedChunks)

C15_TotalChunksFixedAtCreation ==
    [][\A id \in DOMAIN fileUploadStatusMap' :
          IF id \in DOMAIN fileUploadStatusMap
          THEN fileUploadStatusMap'[id].totalChunks = fileUploadStatusMap[id].totalChunks
          ELSE \A totalChunks \in TotalChunksArgs, fileName \in ResumeFileNameArgs,
                  meta \in MetaArgs :
                  ResumeUpload(id, totalChunks, fileName, meta)
                     => fileUploadStatusMap'[id].totalChunks = totalChunks]_vars

\* A resume handshake that named another totalChunks than the session has was
\* answered, and the session is still there.
C15_Witness ==
    /\ resp = Response("resumeUpload", "a", "OK", "mismatch")
    /\ "a" \in DOMAIN fileUploadStatusMap

\* A fileName that is present and not the empty string.
NonEmptyName(fileName) == fileName # Null /\ fileName[1] # <<>>

\* C16: the fileName of a session is set at most once, by the first non-empty
\* value.  No step that keeps the record changes a non-empty fileName, and a
\* chunk submission that carries a non-empty name to a session without one
\* (new, or with no non-empty fileName so far) leaves that name in the record.
C16_FirstNonEmptyFileNameWins ==
    [][\A id \in Ids :
          /\ /\ id \in DOMAIN fileUploadStatusMap
             /\ id \in DOMAIN fileUploadStatusMap'
             /\ NonEmptyName(fileUploadStatusMap[id].fileName)
             => fileUploadStatusMap'[id].fileName = fileUploadStatusMap[id].fileName
          /\ \A a \in ChunkRequestArgs :
                /\ SaveChunk(id, a[1], a[2], a[3], a[4])
                      \/ SaveChunkReactiveEnhanced(id, a[1], a[2], a[3], a[4])
                /\ ValidChunkRequest(a[1], a[2], a[3])
                /\ NonEmptyName(a[4])
                /\ id \in DOMAIN fileUploadStatusMap
                      => ~NonEmptyName(fileUploadStatusMap[id].fileName)
                => fileUploadStatusMap'[id].fileName = a[4]]_vars

\* C17: a chunk submission whose chunkNumber is totalChunks or more is
\* rejected as a bad argument: it is answered at once with that error, no
\* request is left to write a chunk file, and no session gains an index or is
\* created.
C17_IndexBeyondTotalRejected ==
    [][\A id \in Ids, a \in ChunkRequestArgs :
          /\ a[1] >= a[2]
          /\ SaveChunk(id, a[1], a[2], a[3], a[4])
                \/ SaveChunkReactiveEnhanced(id, a[1], a[2], a[3], a[4])
          => /\ resp' = Response(resp'.op, id, "BadArgument", "none")
             /\ inflight' = inflight
             /\ chunkFiles' = chunkFiles
             /\ DOMAIN fileUploadStatusMap' = DOMAIN fileUploadStatusMap
             /\ \A k \in DOMAIN fileUploadStatusMap :
                   fileUploadStatusMap'[k].receivedChunks
                      = fileUploadStatusMap[k].receivedChunks]_vars

\* C18: a cleanup removes only sessions in a terminal state, Completed or
\* Failed.  A session that is neither, one with every chunk received and not
\* finalized included, is still in the registry after a cleanup.
C18_CleanupRemovesOnlyTerminal ==
    [][\A maxAgeMillis \in MaxAgeArgs :
          CleanupOldUploads(maxAgeMillis)
             => \A id \in DOMAIN fileUploadStatusMap :
                   /\ ~fileUploadStatusMap[id].completed
                   /\ ~fileUploadStatusMap[id].failed
                   => id \in DOMAIN fileUploadStatusMap']_vars

\* C19: the record reported of a session has receivedChunks and missingChunks
\* that partition [0, totalChunks), and a nextExpectedChunk that is the least
\* missing index, or totalChunks when none is missing.
C19_RecordPartitionsIndexRange ==
    \A id \in DOMAIN fileUploadStatusMap :
        LET record == ResumeUploadResponse(fileUploadStatusMap[id])
        IN  /\ record.receivedChunks \cup record.missingChunks
                  = 0 .. (record.totalChunks - 1)
            /\ record.receivedChunks \cap record.missingChunks = {}
            /\ IF record.missingChunks = {}
               THEN record.nextExpectedChunk = record.totalChunks
               ELSE /\ record.nextExpectedChunk \in record.missingChunks
                    /\ \A i \in record.missingChunks : record.nextExpectedChunk <= i

\* C20: a start or resume message for a task whose dispatch loop is running is
\* a no-op: it starts no further startUpload loop and issues no chunk request.
C20_StartOfRunningTaskIsNoOp ==
    [][\A fileId \in Ids, totalChunks \in PayloadTotalChunksArgs,
          uploadedChunks \in PayloadUploadedChunksArgs :
          /\ startUpload(fileId, totalChunks, uploadedChunks)
          /\ fileId \in DOMAIN uploadTasks
          /\ \E l \in BagToSet(loops) : l.task = uploadTasks[fileId]
          => /\ loops' = loops
             /\ sent' = sent]_vars

\* C30: finalize never overwrites an existing file.  The transfer of an
\* assembly changes the upload directory only by creating a file at a path
\* that did not exist: no file that was there is rewritten or deleted.
C30_FinalizeNeverOverwrites ==
    [][\A r \in BagToSet(inflight) :
          AssembleChunksToFile(r)
             => \A path \in DOMAIN finalFiles :
                   /\ path \in DOMAIN finalFiles'
                   /\ finalFiles'[path] = finalFiles[path]]_vars

\* The kinds of error the retry policy is stated for.  An error that carries
\* an HTTP status is an HTTP error; a transport error or a timeout carries none.
IsAbort(e) == e.name = "AbortError"
IsHttpError(e, codes) == ~IsAbort(e) /\ e.status \in codes
IsTransportError(e) ==
    /\ ~IsAbort(e)
    /\ e.status = 0
    /\ \/ e.name = "NetworkError"
       \/ \E word \in {"network", "connection", "fetch"} : MessageIncludes(e.message, word)
IsRequestTimeout(e) ==
    /\ ~IsAbort(e)
    /\ e.status = 0
    /\ (e.name = "TimeoutError" \/ MessageIncludes(e.message, "timeout"))

\* C27: the retry policy retries a transport error, a request timeout and
\* HTTP 408/429/500/502/503/504 while attempts remain; it never retries an
\* abort or HTTP 400/401/403/404/413/415, nor any error once the attempt count
\* has reached the maximum.
C27_RetryPolicy ==
    retried # Null =>
        /\ (/\ attemptCount < retryAttempts
            /\ \/ IsTransportError(error)
               \/ IsRequestTimeout(error)
               \/ IsHttpError(error, {408, 429, 500, 502, 503, 504}))
           => retried = Some(TRUE)
        /\ (\/ IsAbort(error)
            \/ error.status \in {400, 401, 403, 404, 413, 415}
            \/ attemptCount >= retryAttempts)
           => retried = Some(FALSE)

\* An abort whose message names the fetch was asked about while attempts
\* remained, and was not retried.
C27_Witness ==
    /\ retried = Some(FALSE)
    /\ attemptCount = 0
    /\ error.name = "AbortError"
    /\ error.status = 0
    /\ MessageIncludes(error.message, "fetch")

\* C28: for every retry index k >= 0 the k-th retry delay satisfies
\* base*2^k <= delay <= base*2^k*1.1 and delay <= 30 s.
C28_DelayWithinJitterBand ==
    delay # Null =>
        /\ retryDelay * 2 ^ attemptCount <= delay[1]
        /\ 10 * delay[1] <= 11 * retryDelay * 2 ^ attemptCount
        /\ delay[1] <= 30000

\* C28 amended: for every retry index k >= 0 the k-th retry delay satisfies
\* min(base*2^k, 30 s) <= delay <= base*2^k*1.1 and delay <= 30 s.
C28_DelayWithinCappedBand ==
    delay # Null =>
        /\ Min(retryDelay * 2 ^ attemptCount, 30000) <= delay[1]
        /\ 10 * delay[1] <= 11 * retryDelay * 2 ^ attemptCount
        /\ delay[1] <= 30000

\* A delay was computed for an index whose exponential delay is above the cap.
C28_Witness ==
    /\ delay = Some(30000)
    /\ retryDelay * 2 ^ attemptCount > 30000

\* C21: after pause(id) has returned, and until the task is resumed, no new
\* chunk send is initiated for it, and the chunks recorded on the server stay
\* recorded.
C21_PausedTaskSendsNoChunk ==
    [][\A fileId \in DOMAIN uploads :
          uploads[fileId].status = "paused"
             => /\ sent' = sent
                /\ fileId \in DOMAIN fileUploadStatusMap
                      => /\ fileId \in DOMAIN fileUploadStatusMap'
                         /\ fileUploadStatusMap[fileId].receivedChunks
                               \subseteq fileUploadStatusMap'[fileId].receivedChunks]_vars

\* C22: on resume(id) the missing-chunk set is recomputed from the server, so
\* the chunks the worker sets out to send when it handles the 'resume' are
\* exactly those the server reports as missing at that time.
C22_ResumeSendsServerMissing ==
    [][\A fileId \in Ids, totalChunks \in FileTotalChunksArgs,
          uploadedChunks \in SUBSET (0 .. (MaxTotalChunks - 1)) :
          /\ startUpload(fileId, totalChunks, uploadedChunks)
          /\ Head(toWorker).type = "resume"
          /\ fileId \in DOMAIN fileUploadStatusMap
          => tasks'[uploadTasks'[fileId]].missingChunks
                = getMissingChunks(fileUploadStatusMap, fileId)]_vars

\* C23: client cancel(id) halts the task as pause does, sends a delete request
\* to the server and discards the task: the cancel issues a DELETE request,
\* and while the upload is cancelled no further chunk send and no finalize
\* call is issued for that id.
C23_CancelledTaskIssuesNothing ==
    [][/\ \A fileId \in Ids :
             serviceCancelUpload(fileId) => deleteRequests' = deleteRequests + 1
       /\ \A fileId \in DOMAIN uploads :
             uploads[fileId].status = "cancelled"
                => /\ sent' = sent
                   /\ \A l \in BagToSet(loops') :
                         l.pc = "completeUpload" /\ tasks'[l.task].fileId = fileId
                            => CopiesIn(l, loops') <= CopiesIn(l, loops)]_vars

\* The changes of the status of an upload that the state machine allows
AllowedTransitions ==
    {<<"pending", "uploading">>, <<"uploading", "paused">>, <<"paused", "uploading">>,
     <<"uploading", "completing">>, <<"completing", "completed">>,
     <<"uploading", "failed">>, <<"completing", "failed">>,
     <<"failed", "uploading">>}
    \cup {<<status, "cancelled">> : status \in {"pending", "uploading", "paused", "completing"}}

\* C24: the status of an upload changes only along Pending -> Uploading ->
\* (Paused <-> Uploading) -> Completing -> Completed, to Failed from Uploading
\* or Completing, to Cancelled from a state that is not terminal, and from
\* Failed to Uploading; Completed and Cancelled are never left.
C24_StatusFollowsStateMachine ==
    [][\A fileId \in DOMAIN uploads :
          /\ fileId \in DOMAIN uploads'
          /\ \/ uploads'[fileId].status = uploads[fileId].status
             \/ <<uploads[fileId].status, uploads'[fileId].status>> \in AllowedTransitions]_vars

\* The messages the worker posts to the main thread in a step
Posted ==
    IF Len(toMain') > Len(toMain)
    THEN SubSeq(toMain', Len(toMain) + 1, Len(toMain'))
    ELSE <<>>
PostedOf(type) == {i \in 1 .. Len(Posted) : Posted[i].type = type}

\* The startUpload calls that await their complete request
Finalizing(bag) ==
    {l \in BagToSet(bag) : l.pc = "completeUpload"}

\* C25: when the worker has every chunk of a task uploaded it posts
\* 'completing' and issues the complete request; when the request settles it
\* posts exactly one of 'completed' (the request succeeded) and 'failed' (it
\* did not); 'completed' is never posted without a complete request that
\* succeeded.
C25_CompletionEvents ==
    [][/\ \A t \in 1 .. Len(tasks') :
             (/\ Cardinality(tasks'[t].uploadedChunks) = tasks'[t].totalChunks
              /\ (t <= Len(tasks) => tasks[t].uploadedChunks # tasks'[t].uploadedChunks))
             => /\ PostedOf("completing") # {}
                /\ CopiesIn(CompleteLoop(t), loops') = CopiesIn(CompleteLoop(t), loops) + 1
       /\ (PostedOf("completing") # {})
             <=> (\E l \in Finalizing(loops') : CopiesIn(l, loops') > CopiesIn(l, loops))
       /\ \A l \in Finalizing(loops), status \in ResponseStatusArgs :
             completeUploadReturns(l, status)
                => /\ Cardinality(PostedOf("completed") \cup PostedOf("failed")) = 1
                   /\ (PostedOf("completed") # {}) <=> ResponseOk(status)
       /\ (PostedOf("completed") # {})
             => \E l \in Finalizing(loops), status \in ResponseStatusArgs :
                   ResponseOk(status) /\ completeUploadReturns(l, status)]_vars

\* The complete request of an upload of MaxTotalChunks chunks has succeeded
\* and 'completed' is on its way to the service.
C25_Witness ==
    \E i \in 1 .. Len(toMain) :
        /\ toMain[i].type = "completed"
        /\ \E t \in 1 .. Len(tasks) :
              /\ tasks[t].fileId = toMain[i].fileId
              /\ tasks[t].uploadedChunks = 0 .. (MaxTotalChunks - 1)

\* C26: a chunk request that fails with a retryable error is retried, and
\* 'failed' is posted for the task only when that chunk has been sent the
\* maximum number of times or the error is not retryable.
C26_ChunkRetriedBeforeFailed ==
    [][\A l \in BagToSet(loops), status \in ResponseStatusArgs :
          /\ uploadMissingChunkReturns(l, status)
          /\ ~ResponseOk(status)
          /\ status \notin {400, 401, 403, 404, 413, 415}
          /\ sent[l.chunkIndex] < retryAttempts
          => /\ PostedOf("failed") = {}
             /\ sent'[l.chunkIndex] = sent[l.chunkIndex] + 1]_vars

\* C29: the chunk requests that one task has in flight are never more than
\* one, whatever messages the worker is sent.
C29_OneChunkRequestInFlight ==
    \A t \in 1 .. Len(tasks) :
        \A l1, l2 \in {l \in BagToSet(loops) : l.pc = "uploadMissingChunk" /\ l.task = t} :
            l1 = l2 /\ CopiesIn(l1, loops) = 1

\* What the server holds of a session: its registry record, whether its
\* temporary directory exists, and its chunk files
SessionOf(map, dirs, files, fileId) ==
    <<IF fileId \in DOMAIN map THEN Some(map[fileId]) ELSE Null,
      fileId \in dirs,
      [k \in {x \in DOMAIN files : x[1] = fileId} |-> files[k]]>>

\* C31: sessions are independent.  No step of a saveChunk, a finalize or a
\* cancel of one id changes the registry record or the chunk files of the
\* session of another id.
C31_SessionsIndependent ==
    [][SessionOf(fileUploadStatusMap', tempDirs', chunkFiles', OtherId)
          = SessionOf(fileUploadStatusMap, tempDirs, chunkFiles, OtherId)]_vars

\* A session of another id has been finalized and one has been cancelled
\* while the session OtherId was there.
C31_Witness ==
    /\ OtherId \in DOMAIN fileUploadStatusMap
    /\ <<OtherId, 0>> \in DOMAIN chunkFiles
    /\ resp.op = "cancelUpload" /\ resp.id # OtherId
    /\ finalFiles # <<>>

\* C32: a finalize request for a session with missing chunks is answered
\* with HTTP 400; it is never surfaced as a 5xx response.
C32_IncompleteFinalizeIsBadRequest ==
    (resp.op = "completeUpload" /\ resp.code = "IncompleteUpload")
        => handleException(resp.code) = 400

\* The previousUploads of the item of sessionStorage, none when it is absent
StoredUploads(storage) == IF storage = Null THEN <<>> ELSE storage[1].previousUploads

\* C33: whenever the page is navigated away from or becomes hidden, the
\* persisted refresh record is the current list of active uploads.
C33_PersistedRecordIsActiveSet ==
    [][(visibilitychange \/ beforeunload)
          => StoredUploads(sessionStorage') = refreshStateSubject.previousUploads]_vars

\* The step is a chunk submission that validation rejects: a new request that
\* is answered at once with the rejection
RejectedSubmission ==
    /\ ops' = ops + 1
    /\ inflight' = inflight
    /\ resp'.op \in {"saveChunk", "saveChunkReactiveEnhanced"}
    /\ resp'.code = "BadArgument"

\* C34: a chunk submission rejected by validation leaves the sessions
\* unchanged: it records no index and does not mark the session Failed.
C34_RejectedSubmissionChangesNothing ==
    [][RejectedSubmission => fileUploadStatusMap' = fileUploadStatusMap]_vars

\* C35: concurrent finalize calls of a session that has all its chunks
\* assemble at most once and the session ends Completed, never Failed: a
\* finalize call that began before the session was Completed or Failed, and
\* that ends its assembleFile after another finalize call of the session has
\* succeeded, does not leave the session Failed.
C35_ConcurrentFinalizeNeverFails ==
    [][\A r \in BagToSet(inflight) :
          (/\ r.op = "completeUpload" /\ r.pc = "assemble" /\ r.prior = "none"
           /\ r.id \in finalized
           /\ inflight' = Finish(r)
           /\ r.id \in DOMAIN fileUploadStatusMap')
          => ~fileUploadStatusMap'[r.id].failed]_vars

\* C36: the completeness test of finalize agrees with the missing-chunk view:
\* for every session, isUploadComplete(id) is true exactly when
\* getMissingChunks(id) is empty.
C36_CompleteIffNothingMissing ==
    \A id \in DOMAIN fileUploadStatusMap :
        isUploadComplete(fileUploadStatusMap, id)
            <=> (getMissingChunks(fileUploadStatusMap, id) = {})

\* C37: uploadedBytes of a session is the sum of the byte lengths of its
\* accepted chunks, so it never exceeds fileSize (and progressPercentage never
\* exceeds 100), also when the last chunk is shorter than chunkSize: for a
\* session that declares its fileSize and whose recorded indices are those of
\* its chunks, uploadedBytes <= fileSize.
C37_UploadedBytesWithinFileSize ==
    \A id \in DOMAIN fileUploadStatusMap :
        LET status == fileUploadStatusMap[id]
        IN  (/\ status.fileSize # Null
             /\ status.receivedChunks \subseteq 0 .. (status.totalChunks - 1))
            => status.uploadedBytes <= status.fileSize[1]

\* C38: chunk files exist on disk only for sessions present in the registry:
\* whenever the record of a session is removed, by cancel or by the cleanup of
\* old sessions, its temporary directory and its chunk files are gone as well.
C38_RemovedSessionLeavesNoFiles ==
    [][\A id \in DOMAIN fileUploadStatusMap \ DOMAIN fileUploadStatusMap' :
          /\ id \notin tempDirs'
          /\ \A k \in DOMAIN chunkFiles' : k[1] # id]_vars

\* C39: a paused task issues no finalize call.  While an upload is paused no
\* complete request is issued for it, and it does not become completing or
\* completed: the finalize waits for the resume.
C39_PausedTaskIssuesNoFinalize ==
    [][\A fileId \in DOMAIN uploads :
          uploads[fileId].status = "paused"
             => /\ \A l \in Finalizing(loops') :
                      tasks'[l.task].fileId = fileId
                         => CopiesIn(l, loops') <= CopiesIn(l, loops)
                /\ uploads'[fileId].status \notin {"completing", "completed"}]_vars

\* A complete request of the upload has been issued
FinalizeIssued(fileId) ==
    \/ \E l \in Finalizing(loops) : tasks[l.task].fileId = fileId
    \/ \E i \in 1 .. Len(toMain) :
          toMain[i].fileId = fileId /\ toMain[i].type \in {"completing", "completed"}
    \/ fileId \in DOMAIN uploads /\ uploads[fileId].status \in {"completing", "completed"}

\* C40: a started upload that is never paused or cancelled and whose chunk
\* requests and complete request succeed eventually is completed; when it is,
\* each of its chunks has been sent exactly once; and the complete request is
\* issued once: none is issued after the first.
C40_StartedUploadCompletes ==
    /\ \A fileId \in Ids :
          (fileId \in DOMAIN uploads)
             ~> (fileId \in DOMAIN uploads /\ uploads[fileId].status = "completed")
    /\ [](\A fileId \in DOMAIN uploads :
             uploads[fileId].status = "completed"
                => /\ FinalizeIssued(fileId)
                   /\ \A i \in 0 .. (uploads[fileId].totalChunks - 1) : sent[i] = 1)
    /\ [][\A fileId \in Ids :
             FinalizeIssued(fileId)
                => \A l \in Finalizing(loops') :
                      CopiesIn(l, loops') <= CopiesIn(l, loops)]_vars

\* An upload of MaxTotalChunks chunks is completed.
C40_Witness ==
    \E fileId \in DOMAIN uploads :
        /\ uploads[fileId].status = "completed"
        /\ uploads[fileId].totalChunks = MaxTotalChunks
        /\ \A i \in 0 .. (MaxTotalChunks - 1) : sent[i] = 1

====
